---- MODULE Spec2Model ----
(***************************************************************************)
(* Model of producer_consumer.c: a kernel module with one optional         *)
(* producer kthread and `cons` consumer kthreads that share a circular     *)
(* buffer guarded by the semaphores empty, full and mutex.                 *)
(*                                                                         *)
(* Every thread is a small program counter machine; one action is one      *)
(* semaphore operation, one critical-section step or one step of the       *)
(* module's init / exit functions.  down_interruptible() has two outcomes: *)
(* it takes a unit when the count is positive, and it may return -EINTR    *)
(* while the caller would have to sleep (count = 0).                       *)
(***************************************************************************)
EXTENDS Integers, Sequences, FiniteSets, TLC

\* ---------------------------------------------------------------- bounds
MaxBuffSize == 2      \* largest buffSize parameter tried
MaxCons     == 2      \* largest cons parameter tried
MaxTasks    == 2      \* longest process list walked by for_each_process

\* the module parameter uuid keeps its default
uuid == 0
\* owner ids of the processes in the list: the filtered one and another one
Uids == {uuid, uuid + 1}

NoTask == -1          \* content of a slot kmalloc() left unwritten

\* values of ktime_get_ns() - task->start_time tried for each consumed item
ElapsedTimes == {1, 2}

VARIABLES
    buffSize, prod, cons,      \* module parameters
    tasks,                     \* the process list: tasks[pid] = owner uid
    pcInit, ci,                \* producer_consumer_init: position, loop index i
    empty, full, mutex,        \* semaphore counts
    buffer, bufState,          \* the slot array; "null" | "alloc" | "freed"
    thrState,                  \* consumerThreads array: "null" | "alloc" | "freed"
    head, tail,
    totalConsumed, totalProcessNanoseconds,
    pcP, cursor, count,        \* producer: position, for_each_process cursor, count
    pcC, loc, should_stop,     \* consumers: position, locals, KTHREAD_SHOULD_STOP
    pcExit, xi,                \* producer_consumer_exit: position, loop index i
    summary,                   \* the total printed by the final printk
    prodLog, consLog,          \* the printk lines of producer and consumers
    delta,                     \* what a thread's unfinished put/take has added to <<empty, full>>
    uaf,                       \* a slot was accessed after kfree(buffer)
    holder,                    \* the threads that took a unit of mutex and did not return it
    name                       \* a consumer's name string: "none" | "alloc" | "freed"

vars == << buffSize, prod, cons, tasks, pcInit, ci, empty, full, mutex, buffer,
           bufState, thrState, head, tail, totalConsumed, totalProcessNanoseconds,
           pcP, cursor, count, pcC, loc, should_stop, pcExit, xi,
           summary, prodLog, consLog, delta, uaf, holder, name >>

cfgVars   == << buffSize, prod, cons, tasks >>
initVars  == << pcInit, ci, thrState >>
semVars   == << empty, full, mutex >>
bufVars   == << buffer, bufState, head, tail >>
statVars  == << totalConsumed, totalProcessNanoseconds >>
prodVars  == << pcP, cursor, count >>
consVars  == << pcC, loc, should_stop >>
exitVars  == << pcExit, xi, summary >>
logVars   == << prodLog, consLog >>

Consumers == 1 .. cons
Producer  == 0
NoLoc     == [task |-> NoTask, head |-> 0, tc |-> 0, ns |-> 0]

\* all process lists of length 0..n over the owner ids
RECURSIVE SeqsUpTo(_)
SeqsUpTo(n) ==
    IF n = 0 THEN { << >> }
    ELSE LET S == SeqsUpTo(n - 1)
         IN  S \cup { Append(s, u) : s \in { t \in S : Len(t) = n - 1 }, u \in Uids }

\* the index after i in the circular buffer: (i + 1) % buffSize
NextIndexStuck(i) == i % buffSize
NextIndexSkip(i) == (i + 2) % buffSize
NextIndex(i) == (i + 1) % buffSize

\* the counts given to sema_init for empty, full and mutex
EmptyInitOneMore == buffSize + 1
EmptyInit == buffSize
FullInitOne == 0 + 1
FullInit == 0
MutexInitTwo == 1 + 1
MutexInit == 1

\* the producer's filter: task->cred->uid.val == uuid
MatchesAny(u) == u >= uuid
Matches(u) == u = uuid

\* totalProcessNanoseconds += taskTime
AccumulateLast(total, taskTime) == taskTime
Accumulate(total, taskTime) == total + taskTime

\* ------------------------------------------------------------------ Init
Init ==
    /\ buffSize \in 0 .. MaxBuffSize
    /\ prod \in 0 .. 1
    /\ cons \in 0 .. MaxCons
    /\ tasks \in SeqsUpTo(MaxTasks)
    /\ pcInit = "start" /\ ci = 0
    /\ empty = 0 /\ full = 0 /\ mutex = 0
    /\ buffer = << >> /\ bufState = "null" /\ thrState = "null"
    /\ head = 0 /\ tail = 0
    /\ totalConsumed = 0 /\ totalProcessNanoseconds = 0
    /\ pcP = "none" /\ cursor = 1 /\ count = 0
    /\ pcC = [i \in Consumers |-> "none"]
    /\ loc = [i \in Consumers |-> NoLoc]
    /\ should_stop = [i \in Consumers |-> FALSE]
    /\ pcExit = "idle" /\ xi = 0 /\ summary = -1
    /\ prodLog = << >> /\ consLog = << >>
    /\ delta = [t \in {Producer} \cup Consumers |-> << 0, 0 >>]
    /\ uaf = FALSE
    /\ holder = {}
    /\ name = [i \in Consumers |-> "none"]

\* ------------------------------------------------- producer_consumer_init
\* parameter checks, then the three sema_init calls
InitValidate ==
    /\ pcInit = "start"
    /\ IF buffSize < 1 \/ prod < 0 \/ prod > 1 \/ cons < 0
       THEN /\ pcInit' = "failed"
            /\ UNCHANGED semVars
       ELSE /\ pcInit' = "alloc_buffer"
            /\ empty' = EmptyInit
            /\ full' = FullInit
            /\ mutex' = MutexInit
    /\ UNCHANGED << cfgVars, ci, thrState, bufVars, statVars, prodVars, consVars,
                    exitVars, logVars, delta, uaf,
                    holder, name >>

\* buffer = kmalloc(...): succeeds, or returns NULL and init returns -1
InitAllocBuffer ==
    /\ pcInit = "alloc_buffer"
    /\ \/ /\ buffer' = [i \in 0 .. buffSize - 1 |-> NoTask]
          /\ bufState' = "alloc"
          /\ pcInit' = IF cons > 0 THEN "alloc_threads" ELSE "create_prod"
       \/ /\ pcInit' = "failed"
          /\ UNCHANGED << buffer, bufState >>
    /\ UNCHANGED << cfgVars, ci, thrState, semVars, head, tail, statVars, prodVars,
                    consVars, exitVars, logVars, delta, uaf,
                    holder, name >>

\* consumerThreads = kmalloc(...): succeeds, or init returns -1 (buffer is kept)
InitAllocThreads ==
    /\ pcInit = "alloc_threads"
    /\ \/ /\ thrState' = "alloc"
          /\ pcInit' = "create_cons"
          /\ ci' = 1
       \/ /\ pcInit' = "failed"
          /\ UNCHANGED << thrState, ci >>
    /\ UNCHANGED << cfgVars, semVars, bufVars, statVars, prodVars, consVars,
                    exitVars, logVars, delta, uaf,
                    holder, name >>

\* one iteration of the consumer loop: name = kmalloc(20), then
\* kthread_run(kthread_consumer, name, ...) starts the thread or fails
InitCreateConsumer ==
    /\ pcInit = "create_cons"
    /\ \/ /\ pcC' = [pcC EXCEPT ![ci] = "created"]
          /\ ci' = ci + 1
          /\ pcInit' = IF ci + 1 > cons THEN "create_prod" ELSE "create_cons"
       \/ /\ pcInit' = "failed"
          /\ UNCHANGED << pcC, ci >>
    /\ name' = [name EXCEPT ![ci] = "alloc"]
    /\ UNCHANGED << cfgVars, thrState, semVars, bufVars, statVars, prodVars, loc,
                    should_stop, exitVars, logVars, delta, uaf,
                    holder >>

\* if (prod == 1) kthread_run(kthread_producer, ...); return 0
InitCreateProducer ==
    /\ pcInit = "create_prod"
    /\ IF prod = 1
       THEN \/ /\ pcP' = "created"
               /\ pcInit' = "loaded"
            \/ /\ pcInit' = "failed"
               /\ UNCHANGED pcP
       ELSE /\ pcInit' = "loaded"
            /\ UNCHANGED pcP
    /\ UNCHANGED << cfgVars, ci, thrState, semVars, bufVars, statVars, cursor, count,
                    consVars, exitVars, logVars, delta, uaf,
                    holder, name >>

\* -------------------------------------------------------- kthread_producer
\* the new kthread enters kthread_producer: count = 0, for_each_process starts
P_start ==
    /\ pcP = "created"
    /\ pcP' = "scan"
    /\ UNCHANGED << cfgVars, initVars, semVars, bufVars, statVars, cursor, count,
                    consVars, exitVars, logVars, delta, uaf,
                    holder, name >>

\* for_each_process reaches the end of the list: return 0
P_exhausted ==
    /\ pcP = "scan"
    /\ cursor > Len(tasks)
    /\ pcP' = "done"
    /\ UNCHANGED << cfgVars, initVars, semVars, bufVars, statVars, cursor, count,
                    consVars, exitVars, logVars, delta, uaf,
                    holder, name >>

\* task->cred->uid.val == uuid: the put of this task begins
P_accept ==
    /\ pcP = "scan"
    /\ cursor <= Len(tasks)
    /\ Matches(tasks[cursor])
    /\ pcP' = "down_empty"
    /\ UNCHANGED << cfgVars, initVars, semVars, bufVars, statVars, cursor, count,
                    consVars, exitVars, logVars, delta, uaf,
                    holder, name >>

\* task->cred->uid.val != uuid: on to the next process
P_skip ==
    /\ pcP = "scan"
    /\ cursor <= Len(tasks)
    /\ ~Matches(tasks[cursor])
    /\ cursor' = cursor + 1
    /\ UNCHANGED << cfgVars, initVars, semVars, bufVars, statVars, pcP, count,
                    consVars, exitVars, logVars, delta, uaf,
                    holder, name >>

\* down_interruptible(&empty) returns 0
P_down_empty ==
    /\ pcP = "down_empty"
    /\ empty > 0
    /\ empty' = empty - 1
    /\ delta' = [delta EXCEPT ![Producer] = << @[1] - 1, @[2] >>]
    /\ pcP' = "down_mutex"
    /\ UNCHANGED << cfgVars, initVars, full, mutex, bufVars, statVars, cursor, count,
                    consVars, exitVars, logVars, uaf,
                    holder, name >>

\* down_interruptible(&empty) returns -EINTR: break
P_int_empty ==
    /\ pcP = "down_empty"
    /\ empty = 0
    /\ pcP' = "done"
    /\ UNCHANGED << cfgVars, initVars, semVars, bufVars, statVars, cursor, count,
                    consVars, exitVars, logVars, delta, uaf,
                    holder, name >>

\* down_interruptible(&mutex) returns 0
P_down_mutex ==
    /\ pcP = "down_mutex"
    /\ mutex > 0
    /\ mutex' = mutex - 1
    /\ pcP' = "cs"
    /\ holder' = holder \cup {Producer}
    /\ UNCHANGED << cfgVars, initVars, empty, full, bufVars, statVars, cursor, count,
                    consVars, exitVars, logVars, delta, uaf,
                    name >>

\* down_interruptible(&mutex) returns -EINTR, with continue in the place of break
P_int_mutex_continue ==
    /\ pcP = "down_mutex"
    /\ mutex = 0
    /\ pcP' = "scan"
    /\ cursor' = cursor + 1
    /\ UNCHANGED << cfgVars, initVars, semVars, bufVars, statVars, count,
                    consVars, exitVars, logVars, delta, uaf,
                    holder, name >>

\* down_interruptible(&mutex) returns -EINTR: break (the unit of empty is kept)
P_int_mutex ==
    /\ pcP = "down_mutex"
    /\ mutex = 0
    /\ pcP' = "done"
    /\ UNCHANGED << cfgVars, initVars, semVars, bufVars, statVars, cursor, count,
                    consVars, exitVars, logVars, delta, uaf,
                    holder, name >>

\* critical section: buffer[tail] = task; count++; printk; tail = (tail + 1) % buffSize
P_cs ==
    /\ pcP = "cs"
    /\ buffer' = [buffer EXCEPT ![tail] = cursor]
    /\ count' = count + 1
    /\ prodLog' = Append(prodLog, [n |-> count + 1, idx |-> tail, pid |-> cursor])
    /\ tail' = NextIndex(tail)
    /\ uaf' = (uaf \/ bufState # "alloc")
    /\ pcP' = "up_mutex"
    /\ UNCHANGED << cfgVars, initVars, semVars, bufState, head, statVars, cursor,
                    consVars, exitVars, consLog, delta,
                    holder, name >>

\* the producer's up(&mutex) left out
P_up_mutex_missing ==
    /\ pcP = "up_mutex"
    /\ mutex' = mutex
    /\ pcP' = "up_full"
    /\ holder' = holder
    /\ UNCHANGED << cfgVars, initVars, empty, full, bufVars, statVars, cursor, count,
                    consVars, exitVars, logVars, delta, uaf,
                    name >>

\* up(&mutex)
P_up_mutex ==
    /\ pcP = "up_mutex"
    /\ mutex' = mutex + 1
    /\ pcP' = "up_full"
    /\ holder' = holder \ {Producer}
    /\ UNCHANGED << cfgVars, initVars, empty, full, bufVars, statVars, cursor, count,
                    consVars, exitVars, logVars, delta, uaf,
                    name >>

\* the producer's up(&full) left out
P_up_full_missing ==
    /\ pcP = "up_full"
    /\ full' = full
    /\ delta' = [delta EXCEPT ![Producer] = << 0, 0 >>]
    /\ cursor' = cursor + 1
    /\ pcP' = "scan"
    /\ UNCHANGED << cfgVars, initVars, empty, mutex, bufVars, statVars, count,
                    consVars, exitVars, logVars, uaf,
                    holder, name >>

\* up(&full), then the loop moves to the next process
P_up_full ==
    /\ pcP = "up_full"
    /\ full' = full + 1
    /\ delta' = [delta EXCEPT ![Producer] = << 0, 0 >>]
    /\ cursor' = cursor + 1
    /\ pcP' = "scan"
    /\ UNCHANGED << cfgVars, initVars, empty, mutex, bufVars, statVars, count,
                    consVars, exitVars, logVars, uaf,
                    holder, name >>

\* -------------------------------------------------------- kthread_consumer
\* the new kthread runs: kthread() calls threadfn unless a stop is already
\* requested, in which case kthread_consumer and its kfree(thread_name) never run
C_start(i) ==
    /\ pcC[i] = "created"
    /\ IF should_stop[i]
       THEN /\ pcC' = [pcC EXCEPT ![i] = "stopped"]
       ELSE /\ pcC' = [pcC EXCEPT ![i] = "loop"]
    /\ UNCHANGED << cfgVars, initVars, semVars, bufVars, statVars, prodVars, loc,
                    should_stop, exitVars, logVars, delta, uaf,
                    holder, name >>

\* kthread_should_stop() as the consumer's loop test reads it
kthread_should_stop_or_done(i) == should_stop[i] \/ pcP = "done"
kthread_should_stop(i) == should_stop[i]

\* while (!kthread_should_stop()); after the loop kfree(thread_name); return 0
C_loop(i) ==
    /\ pcC[i] = "loop"
    /\ IF kthread_should_stop(i)
       THEN /\ pcC' = [pcC EXCEPT ![i] = "stopped"]
            /\ name' = [name EXCEPT ![i] = "freed"]
       ELSE /\ pcC' = [pcC EXCEPT ![i] = "down_full"]
            /\ UNCHANGED name
    /\ UNCHANGED << cfgVars, initVars, semVars, bufVars, statVars, prodVars, loc,
                    should_stop, exitVars, logVars, delta, uaf,
                    holder >>

\* down_interruptible(&full) returns 0
C_down_full(i) ==
    /\ pcC[i] = "down_full"
    /\ full > 0
    /\ full' = full - 1
    /\ delta' = [delta EXCEPT ![i] = << @[1], @[2] - 1 >>]
    /\ pcC' = [pcC EXCEPT ![i] = "down_mutex"]
    /\ UNCHANGED << cfgVars, initVars, empty, mutex, bufVars, statVars, prodVars, loc,
                    should_stop, exitVars, logVars, uaf,
                    holder, name >>

\* down_interruptible(&full) returns -EINTR: break; kfree(thread_name); return 0
C_int_full(i) ==
    /\ pcC[i] = "down_full"
    /\ full = 0
    /\ pcC' = [pcC EXCEPT ![i] = "stopped"]
    /\ name' = [name EXCEPT ![i] = "freed"]
    /\ UNCHANGED << cfgVars, initVars, semVars, bufVars, statVars, prodVars, loc,
                    should_stop, exitVars, logVars, delta, uaf,
                    holder >>

\* down_interruptible(&mutex) returns 0
C_down_mutex(i) ==
    /\ pcC[i] = "down_mutex"
    /\ mutex > 0
    /\ mutex' = mutex - 1
    /\ pcC' = [pcC EXCEPT ![i] = "cs_read"]
    /\ holder' = holder \cup {i}
    /\ UNCHANGED << cfgVars, initVars, empty, full, bufVars, statVars, prodVars, loc,
                    should_stop, exitVars, logVars, delta, uaf,
                    name >>

\* down_interruptible(&mutex) returns -EINTR: break (the unit of full is kept)
C_int_mutex(i) ==
    /\ pcC[i] = "down_mutex"
    /\ mutex = 0
    /\ pcC' = [pcC EXCEPT ![i] = "stopped"]
    /\ name' = [name EXCEPT ![i] = "freed"]
    /\ UNCHANGED << cfgVars, initVars, semVars, bufVars, statVars, prodVars, loc,
                    should_stop, exitVars, logVars, delta, uaf,
                    holder >>

\* critical section, loads: task = buffer[head] and the operands of
\* totalConsumed++, totalProcessNanoseconds += taskTime, head = (head + 1) % buffSize
C_cs_read(i) ==
    /\ pcC[i] = "cs_read"
    /\ loc' = [loc EXCEPT ![i] = [task |-> buffer[head], head |-> head,
                                  tc |-> totalConsumed, ns |-> totalProcessNanoseconds]]
    /\ uaf' = (uaf \/ bufState # "alloc")
    /\ pcC' = [pcC EXCEPT ![i] = "cs_write"]
    /\ UNCHANGED << cfgVars, initVars, semVars, bufVars, statVars, prodVars,
                    should_stop, exitVars, logVars, delta,
                    holder, name >>

\* critical section, stores: the two totals, the printk line (kept without its
\* thread-name label), head; the locals are dead from here on
C_cs_write(i) ==
    /\ pcC[i] = "cs_write"
    /\ \E taskTime \in ElapsedTimes :
          /\ totalConsumed' = loc[i].tc + 1
          /\ totalProcessNanoseconds' = Accumulate(loc[i].ns, taskTime)
          /\ consLog' = Append(consLog, [n |-> loc[i].tc + 1,
                                         idx |-> loc[i].head, pid |-> loc[i].task,
                                         elapsed |-> taskTime])
    /\ head' = NextIndex(loc[i].head)
    /\ loc' = [loc EXCEPT ![i] = NoLoc]
    /\ pcC' = [pcC EXCEPT ![i] = "up_mutex"]
    /\ UNCHANGED << cfgVars, initVars, semVars, buffer, bufState, tail, prodVars,
                    should_stop, exitVars, prodLog, delta, uaf,
                    holder, name >>

\* up(&mutex)
C_up_mutex(i) ==
    /\ pcC[i] = "up_mutex"
    /\ mutex' = mutex + 1
    /\ pcC' = [pcC EXCEPT ![i] = "up_empty"]
    /\ holder' = holder \ {i}
    /\ UNCHANGED << cfgVars, initVars, empty, full, bufVars, statVars, prodVars, loc,
                    should_stop, exitVars, logVars, delta, uaf,
                    name >>

\* up(&full) in the place of the consumer's up(&empty)
C_up_empty_as_full(i) ==
    /\ pcC[i] = "up_empty"
    /\ full' = full + 1
    /\ delta' = [delta EXCEPT ![i] = << 0, 0 >>]
    /\ pcC' = [pcC EXCEPT ![i] = "loop"]
    /\ UNCHANGED << cfgVars, initVars, empty, mutex, bufVars, statVars, prodVars, loc,
                    should_stop, exitVars, logVars, uaf,
                    holder, name >>

\* up(&empty), then back to the loop test
C_up_empty(i) ==
    /\ pcC[i] = "up_empty"
    /\ empty' = empty + 1
    /\ delta' = [delta EXCEPT ![i] = << 0, 0 >>]
    /\ pcC' = [pcC EXCEPT ![i] = "loop"]
    /\ UNCHANGED << cfgVars, initVars, full, mutex, bufVars, statVars, prodVars, loc,
                    should_stop, exitVars, logVars, uaf,
                    holder, name >>

\* --------------------------------------------------- producer_consumer_exit
\* rmmod of the loaded module enters producer_consumer_exit
ExitCall ==
    /\ pcInit = "loaded"
    /\ pcExit = "idle"
    /\ xi' = 1
    /\ pcExit' = IF cons > 0 THEN "stop" ELSE "up_mutex"
    /\ UNCHANGED << cfgVars, initVars, semVars, bufVars, statVars, prodVars, consVars,
                    summary, logVars, delta, uaf,
                    holder, name >>

\* kthread_stop(consumerThreads[i]), first half: set KTHREAD_SHOULD_STOP and wake
\* the thread.  A thread that already returned on its own is no longer a valid
\* task: the call either comes back or the kernel faults.
ExitKthreadStop ==
    /\ pcExit = "stop"
    /\ IF pcC[xi] = "stopped"
       THEN /\ \/ pcExit' = "wait"
               \/ pcExit' = "oops"
            /\ UNCHANGED should_stop
       ELSE /\ should_stop' = [should_stop EXCEPT ![xi] = TRUE]
            /\ pcExit' = "wait"
    /\ UNCHANGED << cfgVars, initVars, semVars, bufVars, statVars, prodVars, pcC, loc,
                    xi, summary, logVars, delta, uaf,
                    holder, name >>

\* kthread_stop(consumerThreads[i]), second half: wait_for_completion of the
\* thread's exit, then i++
ExitWait ==
    /\ pcExit = "wait"
    /\ pcC[xi] = "stopped"
    /\ xi' = xi + 1
    /\ pcExit' = IF xi + 1 > cons THEN "up_mutex" ELSE "stop"
    /\ UNCHANGED << cfgVars, initVars, semVars, bufVars, statVars, prodVars, consVars,
                    summary, logVars, delta, uaf,
                    holder, name >>

\* up(&mutex)
ExitUpMutex ==
    /\ pcExit = "up_mutex"
    /\ mutex' = mutex + 1
    /\ pcExit' = "up_full"
    /\ UNCHANGED << cfgVars, initVars, empty, full, bufVars, statVars, prodVars,
                    consVars, xi, summary, logVars, delta, uaf,
                    holder, name >>

\* up(&full)
ExitUpFull ==
    /\ pcExit = "up_full"
    /\ full' = full + 1
    /\ pcExit' = "free"
    /\ UNCHANGED << cfgVars, initVars, empty, mutex, bufVars, statVars, prodVars,
                    consVars, xi, summary, logVars, delta, uaf,
                    holder, name >>

\* kfree(buffer); if (cons > 0) kfree(consumerThreads)
ExitFree ==
    /\ pcExit = "free"
    /\ bufState' = "freed"
    /\ thrState' = IF cons > 0 THEN "freed" ELSE thrState
    /\ pcExit' = "print"
    /\ UNCHANGED << cfgVars, pcInit, ci, semVars, buffer, head, tail, statVars,
                    prodVars, consVars, xi, summary, logVars, delta, uaf,
                    holder, name >>

\* the final printk of totalProcessNanoseconds; the function returns
ExitSummary ==
    /\ pcExit = "print"
    /\ summary' = totalProcessNanoseconds
    /\ pcExit' = "returned"
    /\ UNCHANGED << cfgVars, initVars, semVars, bufVars, statVars, prodVars, consVars,
                    xi, logVars, delta, uaf,
                    holder, name >>

\* ------------------------------------------------------------ specification
InitStep == InitValidate \/ InitAllocBuffer \/ InitAllocThreads
            \/ InitCreateConsumer \/ InitCreateProducer

ProducerRun == P_start \/ P_exhausted \/ P_accept \/ P_skip \/ P_down_empty
               \/ P_down_mutex \/ P_cs \/ P_up_mutex \/ P_up_full

ProducerInterrupt == P_int_empty \/ P_int_mutex

ConsumerRun(i) == C_start(i) \/ C_loop(i) \/ C_down_full(i) \/ C_down_mutex(i)
                  \/ C_cs_read(i) \/ C_cs_write(i) \/ C_up_mutex(i) \/ C_up_empty(i)

ConsumerInterrupt(i) == C_int_full(i) \/ C_int_mutex(i)

ExitStep == ExitKthreadStop \/ ExitWait \/ ExitUpMutex \/ ExitUpFull \/ ExitFree
            \/ ExitSummary

Next ==
    \/ InitStep
    \/ ProducerRun
    \/ ProducerInterrupt
    \/ \E i \in Consumers : ConsumerRun(i)
    \/ \E i \in Consumers : ConsumerInterrupt(i)
    \/ ExitCall
    \/ ExitStep

Spec == Init /\ [][Next]_vars

\* The scheduler runs every runnable thread, init and exit included; whether a
\* signal interrupts a wait and whether the module is unloaded is up to the
\* environment.
Fairness ==
    /\ WF_vars(InitStep)
    /\ WF_vars(ProducerRun)
    /\ \A i \in 1 .. MaxCons : WF_vars(i \in Consumers /\ ConsumerRun(i))
    /\ WF_vars(ExitStep)

FairSpec == Spec /\ Fairness

\* ------------------------------------------------------------- properties
\* items written by the producer and not yet read by a completed take
Unconsumed == Len(prodLog) - Len(consLog)

\* the slots those items were written to
UnconsumedSlots == { prodLog[k].idx : k \in Len(consLog) + 1 .. Len(prodLog) }

\* takes whose free slot has been signalled by up(&empty)
SignalledTakes ==
    Len(consLog) - Cardinality({ i \in Consumers : pcC[i] \in {"up_mutex", "up_empty"} })

AllStopped == \A i \in Consumers : pcC[i] = "stopped"

\* C1 (FIFO): the k-th item removed from the buffer, in the order of the
\* consumers' critical sections, is the k-th item the producer put, for any
\* number of consumers.
C1_Fifo ==
    /\ Len(consLog) <= Len(prodLog)
    /\ \A k \in 1 .. Len(consLog) : consLog[k].pid = prodLog[k].pid

\* two consumers have each just taken one of the first two items
C1_Witness ==
    /\ Len(consLog) = 2
    /\ \E i, j \in Consumers : pcC[i] = "up_empty" /\ pcC[j] = "up_mutex"

\* C2 (capacity bound): the number of items put and not yet taken stays within
\* 0..buffSize; the producer is never about to write a slot that still holds
\* an unconsumed item, and a consumer is never about to read a slot that holds
\* none.
C2_Capacity ==
    /\ Unconsumed >= 0
    /\ Unconsumed <= buffSize
    /\ pcP = "cs" => tail \notin UnconsumedSlots
    /\ \A i \in Consumers :
          pcC[i] = "cs_read" => (head \in UnconsumedSlots /\ buffer[head] # NoTask)

\* the buffer is full again after an earlier take
C2_Witness ==
    /\ buffSize >= 1
    /\ Unconsumed = buffSize
    /\ Len(consLog) >= 1

\* C3 (no loss, no duplication): when shutdown has asked every consumer to stop
\* and all of them have stopped, every item the producer put has been consumed
\* exactly once, or is still in the buffer between head and tail and counted
\* by the filled-slot semaphore (an item just written counts with the
\* producer's pending up(&full)).
C3_NoLossNoDup ==
    (pcExit = "up_mutex" /\ \A i \in Consumers : should_stop[i]) =>
        /\ Len(consLog) <= Len(prodLog)
        /\ \A k \in 1 .. Len(consLog) : consLog[k].pid = prodLog[k].pid
        /\ \A j, k \in 1 .. Len(consLog) : consLog[j].pid = consLog[k].pid => j = k
        /\ \A k \in 1 .. Unconsumed :
              buffer[(head + k - 1) % buffSize] = prodLog[Len(consLog) + k].pid
        /\ full + (IF pcP \in {"up_mutex", "up_full"} THEN 1 ELSE 0) = Unconsumed

\* C4 (shutdown liveness): once producer_consumer_exit has been entered, every
\* consumer eventually reaches Stopped and the function returns.  A run in
\* which kthread_stop faults on a thread that had already returned is not held
\* against the claim.
C4_ShutdownLiveness ==
    (pcExit # "idle") ~> ((AllStopped /\ pcExit = "returned") \/ pcExit = "oops")

\* threads between their down(&mutex) and their up(&mutex)
InCS == { t \in {Producer} \cup Consumers :
            IF t = Producer THEN pcP \in {"cs", "up_mutex"}
            ELSE pcC[t] \in {"cs_read", "cs_write", "up_mutex"} }

\* C5 (mutual exclusion): at most one thread is inside its critical section,
\* and head, tail, the slots and the two totals change only in a step of a
\* thread that holds the mutex.
C5_MutualExclusion ==
    /\ [](Cardinality(InCS) <= 1)
    /\ [][ ( \/ head' # head
             \/ tail' # tail
             \/ totalConsumed' # totalConsumed
             \/ totalProcessNanoseconds' # totalProcessNanoseconds
             \/ (buffer' # buffer /\ pcInit # "alloc_buffer") )
           => \E t \in InCS :
                 IF t = Producer THEN pcP' # pcP ELSE pcC'[t] # pcC[t] ]_vars

\* the producer is in its critical section while a consumer waits for the mutex
C5_Witness ==
    /\ pcP = "cs"
    /\ mutex = 0
    /\ \E i \in Consumers : pcC[i] = "down_mutex"

\* C6 (interrupted put): a put cancelled in the wait for a free slot or in the
\* wait for the lock stores no item and leaves tail, the slots and the counts
\* of empty and full as they were before that put began: at the step that
\* ends the put, what the put itself has added to << empty, full >> is nil.
C6_InterruptedPut ==
    [][ (pcP \in {"down_empty", "down_mutex"} /\ pcP' = "done")
        => /\ delta'[Producer] = << 0, 0 >>
           /\ \A k \in 1 .. Len(prodLog') : prodLog'[k].pid # cursor'
           /\ UNCHANGED << buffer, tail, count >> ]_vars

\* C7 (interrupted take): a take cancelled in the wait for a filled slot or in
\* the wait for the lock changes nothing: at the step that ends the take, what
\* the take itself has added to << empty, full >> is nil, and head, the slots
\* and the statistics are untouched.
C7_InterruptedTake ==
    [][ \A i \in Consumers :
          (pcC[i] \in {"down_full", "down_mutex"} /\ pcC'[i] = "stopped")
          => /\ delta'[i] = << 0, 0 >>
             /\ UNCHANGED << buffer, head, totalConsumed, totalProcessNanoseconds,
                             consLog >> ]_vars

\* C8 (blocking backpressure): while buffSize items are written and their
\* takes not yet signalled, the producer waiting for a free slot finds empty at
\* 0, and the producer is past that wait only when the item it is about to
\* write fits: items written + 1 <= buffSize + takes signalled.
C8_Backpressure ==
    /\ (pcP = "down_empty" /\ Len(prodLog) - SignalledTakes >= buffSize) => empty = 0
    /\ pcP \in {"down_mutex", "cs"} => Len(prodLog) + 1 <= buffSize + SignalledTakes

\* the producer is suspended on a full buffer
C8_Witness ==
    /\ pcP = "down_empty"
    /\ empty = 0
    /\ buffSize >= 1
    /\ Unconsumed = buffSize

RECURSIVE SumElapsed(_)
SumElapsed(log) ==
    IF log = << >> THEN 0 ELSE log[1].elapsed + SumElapsed(Tail(log))

\* C9 (statistics): totalConsumed equals the number of items consumed, the
\* cumulative counter equals the sum of their elapsed times, and the k-th
\* consumer line logs item number k.
C9_Statistics ==
    /\ totalConsumed = Len(consLog)
    /\ totalProcessNanoseconds = SumElapsed(consLog)
    /\ \A k \in 1 .. Len(consLog) : consLog[k].n = k

\* two consumers have consumed items with different elapsed times
C9_Witness ==
    /\ Len(consLog) = 2
    /\ \E i, j \in Consumers : i # j /\ pcC[i] = "up_empty" /\ pcC[j] = "up_empty"
    /\ consLog[1].elapsed # consLog[2].elapsed

\* pids of the first n processes whose owner is uuid, in list order
RECURSIVE OwnedUpTo(_)
OwnedUpTo(n) ==
    IF n = 0 THEN << >>
    ELSE IF tasks[n] = uuid THEN Append(OwnedUpTo(n - 1), n) ELSE OwnedUpTo(n - 1)

\* processes the producer has finished with
Scanned == IF pcP \in {"up_mutex", "up_full"} THEN cursor ELSE cursor - 1

\* C10 (filter): the items put are exactly the processes owned by uuid among
\* those scanned, once each and in list order, all of them when the list is
\* exhausted; stepping over a process of another owner changes nothing.
C10_Filter ==
    /\ []( /\ [k \in 1 .. Len(prodLog) |-> prodLog[k].pid] = OwnedUpTo(Scanned)
           /\ (pcP = "done" /\ cursor > Len(tasks)) =>
                 /\ Len(prodLog) = Len(OwnedUpTo(Len(tasks)))
                 /\ count = Len(prodLog) )
    /\ [][ (pcP = "scan" /\ cursor <= Len(tasks) /\ tasks[cursor] # uuid
            /\ cursor' # cursor)
           => UNCHANGED << buffer, head, tail, empty, full, mutex, count, prodLog >> ]_vars

\* the scan is complete; it stepped over the first process and put a later one
C10_Witness ==
    /\ pcP = "done"
    /\ cursor > Len(tasks)
    /\ Len(tasks) >= 2
    /\ tasks[1] # uuid
    /\ Len(prodLog) >= 1

\* the producer walked the whole process list and returned
Exhausted == pcP = "done" /\ cursor > Len(tasks)

\* C11 (producer completion does not stop consumers): a stop is requested only
\* by the module's exit; once the producer is done by exhaustion, a consumer
\* that has no stop request leaves its loop only from an interrupted wait;
\* and when no stop was requested, no wait was interrupted and no consumer can
\* take a step, the buffer is drained and every consumer is waiting on full.
C11_ProducerDone ==
    /\ [](\A i \in Consumers : should_stop[i] => pcExit # "idle")
    /\ [][ Exhausted =>
             \A i \in Consumers :
                (pcC[i] # "stopped" /\ pcC'[i] = "stopped") =>
                   \/ should_stop[i]
                   \/ pcC[i] = "down_full" /\ full = 0
                   \/ pcC[i] = "down_mutex" /\ mutex = 0 ]_vars
    /\ []( ( /\ Exhausted
             /\ pcExit = "idle"
             /\ cons >= 1
             /\ \A i \in Consumers : pcC[i] \notin {"created", "stopped"}
             /\ \A i \in Consumers : ~ ENABLED ConsumerRun(i) )
           => /\ Unconsumed = 0
              /\ \A i \in Consumers : pcC[i] = "down_full" /\ full = 0 )

\* the producer is done, the two items it put have been taken and both
\* consumers wait on full again
C11_Witness ==
    /\ Exhausted
    /\ pcExit = "idle"
    /\ cons = 2
    /\ Len(consLog) = 2
    /\ \A i \in Consumers : pcC[i] = "down_full"
    /\ full = 0

\* C12 (allocation failure at startup): when the kmalloc of the buffer or of
\* the consumerThreads array fails, init returns an error with no thread
\* started and with nothing it allocated still allocated.
C12_AllocFailure ==
    [][ (pcInit \in {"alloc_buffer", "alloc_threads"} /\ pcInit' = "failed") =>
           /\ pcP' = "none"
           /\ \A i \in Consumers : pcC'[i] = "none"
           /\ bufState' # "alloc"
           /\ thrState' # "alloc" ]_vars

\* how many times exit has done up(&mutex) and up(&full) so far
ExitMutexSignals == IF pcExit \in {"up_full", "free", "print", "returned"} THEN 1 ELSE 0
ExitFullSignals == IF pcExit \in {"free", "print", "returned"} THEN 1 ELSE 0

\* C13 (shutdown signalling): while exit waits for consumer xi to stop it has
\* released the mutex and full at least once for each of the consumers 1..xi
\* it asked to stop, and once it is past its signalling it has done so at
\* least once per consumer.
C13_ShutdownSignalling ==
    /\ pcExit = "wait" => (ExitMutexSignals >= xi /\ ExitFullSignals >= xi)
    /\ pcExit \in {"free", "print", "returned"} =>
          (ExitMutexSignals >= cons /\ ExitFullSignals >= cons)

\* C14 (storage release ordering): the buffer is freed only when the producer
\* has returned (or was never created) and every consumer has stopped, and no
\* thread reads or writes a slot after kfree(buffer).
C14_ReleaseOrdering ==
    /\ bufState = "freed" => (pcP \in {"none", "done"} /\ AllStopped)
    /\ ~ uaf

\* C15 (index invariant, as stated): head and tail are in 0..buffSize-1 and
\* the number of items put and not yet taken equals (tail - head) mod buffSize.
C15_IndexInvariant ==
    buffSize >= 1 =>
       /\ head \in 0 .. buffSize - 1
       /\ tail \in 0 .. buffSize - 1
       /\ Unconsumed = (tail - head + buffSize) % buffSize

\* C15 (index invariant, amended): head and tail are in 0..buffSize-1; the
\* number of items put and not yet taken equals (tail - head) mod buffSize
\* while it is below buffSize, and when it is buffSize tail equals head.
C15_IndexInvariantModulo ==
    buffSize >= 1 =>
       /\ head \in 0 .. buffSize - 1
       /\ tail \in 0 .. buffSize - 1
       /\ IF Unconsumed = buffSize
          THEN tail = head
          ELSE Unconsumed = (tail - head + buffSize) % buffSize

\* a two-slot buffer is full: two items are buffered and tail has wrapped to head
C15_Witness ==
    /\ buffSize = 2
    /\ Unconsumed = 2
    /\ tail = head

\* sema_init has run for the three semaphores
SemaphoresReady == buffSize >= 1 /\ pcInit # "start"

\* items written whose up(&full) is still to come
PendingFull == IF pcP \in {"up_mutex", "up_full"} THEN 1 ELSE 0

\* units of full taken by takes that have not removed their item: the take is
\* in progress, or it was abandoned when its wait for the mutex was interrupted
HeldFull ==
    Cardinality({ i \in Consumers :
                    delta[i][2] = -1 /\ pcC[i] \notin {"up_mutex", "up_empty"} })

\* the unit of empty taken by a put that has not written its item: the put is
\* in progress, or it was abandoned when its wait for the mutex was interrupted
HeldEmpty ==
    IF delta[Producer][1] = -1 /\ pcP \notin {"up_mutex", "up_full"} THEN 1 ELSE 0

\* items removed whose up(&empty) is still to come
PendingEmpty == Cardinality({ i \in Consumers : pcC[i] \in {"up_mutex", "up_empty"} })

\* C16 (semaphore mirroring, as stated): once the semaphores are initialised,
\* full equals the number of filled slots and empty equals buffSize minus it.
C16_Mirroring ==
    SemaphoresReady =>
       /\ full = Unconsumed
       /\ empty = buffSize - Unconsumed

\* C16 (semaphore mirroring, amended): full is the number of filled slots less
\* the items written but not yet signalled and the units held by unfinished
\* takes, plus the unit exit's up(&full) adds; empty is buffSize less the
\* filled slots, the unit held by an unfinished put and the takes not yet
\* signalled.
C16_MirroringInFlight ==
    SemaphoresReady =>
       /\ full = Unconsumed - PendingFull - HeldFull + ExitFullSignals
       /\ empty = buffSize - Unconsumed - HeldEmpty - PendingEmpty

\* one item is buffered and signalled, and the put of a second one holds the
\* last unit of empty while it waits for the mutex
C16_Witness ==
    /\ buffSize = 2
    /\ Unconsumed = 1
    /\ full = 1
    /\ pcP = "down_mutex"
    /\ empty = 0

\* C17 (no lock held across a counting wait): a thread waiting on empty or on
\* full does not hold the mutex; a thread holding the mutex took its unit of
\* empty (producer) or full (consumer) before; and a thread holding the mutex
\* is not waiting for any semaphore.
C17_NoLockAcrossWait ==
    /\ pcP = "down_empty" => Producer \notin holder
    /\ \A i \in Consumers : pcC[i] = "down_full" => i \notin holder
    /\ Producer \in holder => delta[Producer][1] = -1
    /\ \A i \in Consumers : i \in holder => delta[i][2] = -1
    /\ Producer \in holder => pcP \notin {"down_empty", "down_mutex"}
    /\ \A i \in Consumers : i \in holder => pcC[i] \notin {"down_full", "down_mutex"}

\* the producer is in its critical section while one consumer waits for the
\* mutex and the other waits on full
C17_Witness ==
    /\ cons = 2
    /\ pcP = "cs"
    /\ holder = {Producer}
    /\ \E i, j \in Consumers :
          /\ pcC[i] = "down_mutex"
          /\ pcC[j] = "down_full"
          /\ full = 0

\* C18 (producer termination): a put whose wait is interrupted takes the
\* producer straight to done with the cursor and count where they were; once
\* done, by exhaustion or by interruption, the producer stays done, writes no
\* slot, no tail, no log line, and every change of a semaphore count is the
\* step of a consumer or of exit.
C18_ProducerTermination ==
    /\ [][ ( /\ \/ pcP = "down_empty" /\ empty = 0
                \/ pcP = "down_mutex" /\ mutex = 0
             /\ pcP' # pcP )
           => /\ pcP' = "done"
              /\ UNCHANGED << cursor, count, buffer, tail, prodLog >> ]_vars
    /\ [][ pcP = "done" =>
              /\ pcP' = "done"
              /\ UNCHANGED << cursor, count, buffer, tail, prodLog >>
              /\ delta'[Producer] = delta[Producer]
              /\ (Producer \in holder') = (Producer \in holder)
              /\ (<< empty, full, mutex >>' # << empty, full, mutex >>)
                    => (pcC' # pcC \/ pcExit' # pcExit) ]_vars

\* the producer was interrupted before the second process of the list, and a
\* consumer has taken an item since
C18_Witness ==
    /\ pcP = "done"
    /\ cursor = 2
    /\ Len(tasks) = 2
    /\ Len(prodLog) = 1
    /\ Len(consLog) = 1
    /\ \E i \in Consumers : pcC[i] = "down_full"

\* C19 (consumer name released once): a consumer that has stopped has had its
\* name freed, whichever way it stopped, and a consumer still inside
\* kthread_consumer's loop has its name allocated.
C19_NameReleased ==
    \A i \in Consumers :
       /\ pcC[i] = "stopped" => name[i] = "freed"
       /\ pcC[i] \notin {"none", "created", "stopped"} => name[i] = "alloc"

\* C20 (the mutex stays binary): the count of mutex is 0 or 1 in every
\* reachable state, and after sema_init every step that raises it is the
\* release by a thread that holds it.
C20_MutexBinary ==
    /\ [](mutex \in {0, 1})
    /\ [][ (pcInit # "start" /\ mutex' > mutex)
           => \E t \in holder : holder' = holder \ {t} ]_vars

\* threads between the down of their counting semaphore and the up of the
\* other one: a put or a take is in progress
InProgress ==
    (IF pcP \in {"down_mutex", "cs", "up_mutex", "up_full"} THEN 1 ELSE 0)
    + Cardinality({ i \in Consumers :
                      pcC[i] \in {"down_mutex", "cs_read", "cs_write",
                                  "up_mutex", "up_empty"} })

\* C21 (slot-unit conservation): before exit is called, empty + full + the
\* number of puts and takes in progress is buffSize, also after a wait was
\* interrupted; so empty + full = buffSize whenever none is in progress.
C21_UnitConservation ==
    (SemaphoresReady /\ pcExit = "idle") => empty + full + InProgress = buffSize

\* so far no stop was requested and no wait was interrupted: exit has not been
\* called, no consumer has left its loop, and the producer has not returned
\* before the end of the list
Undisturbed ==
    /\ pcExit = "idle"
    /\ \A i \in Consumers : pcC[i] # "stopped"
    /\ ~ (pcP = "done" /\ cursor <= Len(tasks))

\* C22 (progress without deadlock): the producer is never blocked on empty
\* while every consumer is blocked on full; and with a producer, at least one
\* consumer and a successful init, every fairly scheduled run in which no stop
\* is requested and no wait is interrupted reaches the state where the producer
\* has returned at the end of the list and every item it put has been consumed.
C22_Progress ==
    /\ [](cons >= 1 =>
            ~ ( /\ pcP = "down_empty" /\ empty = 0
                /\ \A i \in Consumers : pcC[i] = "down_full" /\ full = 0 ))
    /\ <>( \/ cons = 0 \/ prod = 0 \/ pcInit = "failed"
           \/ ~ Undisturbed
           \/ (Exhausted /\ Unconsumed = 0) )

\* one consumer has taken both items through a one-slot buffer, the producer
\* has returned, and nothing disturbed the run
C22_Witness ==
    /\ Undisturbed
    /\ Exhausted
    /\ cons = 1
    /\ buffSize = 1
    /\ Len(consLog) = 2
    /\ Unconsumed = 0

====
